---- MODULE Spec2Model ----
(***************************************************************************)
(* Model of simplestclaw:                                                  *)
(*   - the hosted sidecar (src/unnamed/part_000): spawns the OpenClaw      *)
(*     gateway as a child process, restarts it on exit, serves /health;    *)
(*   - the desktop store (src/apps/desktop/src/lib/store.ts) and the       *)
(*     Settings screen's handlers (src/apps/desktop/src/components/        *)
(*     Settings.tsx).                                                      *)
(*                                                                         *)
(* Time is kept as the remaining delay of each pending timer, in ms; it    *)
(* advances in steps of TickSteps and never past a timer that is due.      *)
(* JavaScript's undefined is the sentinel string Undefined, null is Null.  *)
(* Strings the code searches (stdout chunks) are sequences of characters.  *)
(***************************************************************************)
EXTENDS Integers, Sequences, FiniteSets, TLC

VARIABLES
    env,              \* process.env of the sidecar
    pc,               \* "init" | "running" | "exited": the sidecar process
    exitCode,         \* <<code>> once process.exit(code) was called, <<>> before
    openclawHealthy,  \* part_000:8
    openclawProcess,  \* part_000:9, NoProcess or the id of the child last spawned
    alive,            \* ids of the children spawned and not yet closed
    spawnLog,         \* one record per spawn() call: its args and env
    timers,           \* pending setTimeout calls, in the order armed
    serverState,      \* "idle" | "listening" | "closing" | "closed"
    killLog,          \* the signals sent to children with kill()
    signals,          \* number of SIGTERM/SIGINT received so far
    lastEvent,        \* the event whose handler ran last (a request: with its response)
    store,            \* desktop: the zustand store's state
    apiKey,           \* desktop: Settings' apiKey input state
    saving,           \* desktop: Settings' saving flag
    savePc,           \* desktop: "idle", or the tauri call handleSave awaits
    saveLog,          \* desktop: the calls made by the latest handleSave call
    installPc         \* desktop: "idle", or "installRuntime" while it is awaited

sidecarVars == <<env, pc, exitCode, openclawHealthy, openclawProcess, alive,
                 spawnLog, timers, serverState, killLog, signals, lastEvent>>
desktopVars == <<store, apiKey, saving, savePc, saveLog, installPc>>
vars == <<env, pc, exitCode, openclawHealthy, openclawProcess, alive,
          spawnLog, timers, serverState, killLog, signals, lastEvent,
          store, apiKey, saving, savePc, saveLog, installPc>>

\* ------------------------------------------------------------ bounds
MaxSpawns == 3
MaxSignals == 2

\* ------------------------------------------------------- JS values
Null == "<null>"
\* part_000:9: openclawProcess = null; children are numbered from 1
NoProcess == 0
Undefined == "<undefined>"
\* JavaScript truthiness of a string-or-undefined value
Truthy(v) == v # Undefined /\ v # Null /\ v # ""

\* String.prototype.includes on sequences of characters
Includes(s, sub) ==
    \E i \in 0..(Len(s) - Len(sub)) : SubSeq(s, i + 1, i + Len(sub)) = sub

\* ------------------------------------------------ sidecar constants
OPENCLAW_PORT == 18789
STARTUP_DELAY == 3000
RESTART_DELAY == 5000
TickSteps == {1000}

ApiKeyNames == {"ANTHROPIC_API_KEY", "OPENAI_API_KEY", "GOOGLE_API_KEY",
                "OPENROUTER_API_KEY"}

\* The environments the sidecar is started in.
ProcessEnvs ==
    { [OPENCLAW_GATEWAY_TOKEN |-> t, ANTHROPIC_API_KEY |-> "sk-ant",
       OPENAI_API_KEY |-> Undefined, GOOGLE_API_KEY |-> "g-key",
       OPENROUTER_API_KEY |-> Undefined, NODE_OPTIONS |-> n, PORT |-> "3000"] :
         t \in {Undefined, "", "s3cret"}, n \in {Undefined, "--inspect"} }

\* stdout/stderr chunks of the gateway, as character sequences
ChListening == <<"l","i","s","t","e","n","i","n","g">>
ChStarted == <<"s","t","a","r","t","e","d">>
Chunks ==
    { ChListening,
      <<"o","k"," ">> \o ChStarted \o <<"\n">>,
      <<"L","i","s","t","e","n","i","n","g">>,
      <<"s","t","a","r","t">> }

Urls == {"/health", "/", "/chat", "/health?probe=1"}
ExitCodes == {0, 1}

\* -------------------------------------------------- startOpenClaw
\* A variant that passes --token whenever the variable is defined, even empty.
SpawnArgsTokenIfDefined(e) ==
    <<"openclaw", "gateway", "--port", ToString(OPENCLAW_PORT), "--bind", "lan",
      "--allow-unconfigured">>
    \o (IF e["OPENCLAW_GATEWAY_TOKEN"] # Undefined
        THEN <<"--token", e["OPENCLAW_GATEWAY_TOKEN"]>>
        ELSE <<>>)

\* part_000:15-25
SpawnArgs(e) ==
    <<"openclaw", "gateway", "--port", ToString(OPENCLAW_PORT), "--bind", "lan",
      "--allow-unconfigured">>
    \o (IF Truthy(e["OPENCLAW_GATEWAY_TOKEN"])
        THEN <<"--token", e["OPENCLAW_GATEWAY_TOKEN"]>>
        ELSE <<>>)

\* part_000:29-38: the object literal; later keys override the spread
SpawnEnv(e) ==
    [NODE_OPTIONS |-> "--max-old-space-size=2048",
     ANTHROPIC_API_KEY |-> e["ANTHROPIC_API_KEY"],
     OPENAI_API_KEY |-> e["OPENAI_API_KEY"],
     GOOGLE_API_KEY |-> e["GOOGLE_API_KEY"],
     OPENROUTER_API_KEY |-> e["OPENROUTER_API_KEY"]] @@ e

\* part_000:60-63
StartupTimer(pid) == [kind |-> "healthy", left |-> STARTUP_DELAY, pid |-> pid]
\* A variant with a delay that grows with the number of restarts.
RestartTimerBackoff(pid) ==
    [kind |-> "restart", left |-> RESTART_DELAY * pid, pid |-> pid]

\* part_000:57
RestartTimer(pid) == [kind |-> "restart", left |-> RESTART_DELAY, pid |-> pid]

RemoveAt(s, i) == SubSeq(s, 1, i - 1) \o SubSeq(s, i + 1, Len(s))

\* part_000:12-64, with ts the timers pending when it is called
StartOpenClaw(ts) ==
    LET pid == Len(spawnLog) + 1 IN
    /\ spawnLog' = Append(spawnLog, [args |-> SpawnArgs(env), env |-> SpawnEnv(env)])
    /\ openclawProcess' = pid
    /\ alive' = alive \cup {pid}
    /\ timers' = Append(ts, StartupTimer(pid))

\* -------------------------------------------------------- handlers
\* A variant that takes any output as the sign of a started gateway.
OnStdoutDataAnyChunk(healthy, chunk) == TRUE

\* part_000:41-47: the flag after a stdout chunk
OnStdoutData(healthy, chunk) ==
    IF Includes(chunk, ChListening) \/ Includes(chunk, ChStarted)
    THEN TRUE ELSE healthy

\* part_000:49-51: the flag after a stderr chunk
OnStderrData(healthy, chunk) == healthy

\* A variant that schedules the restart twice (as with a handler on both
\* 'exit' and 'close').
OnCloseTimersTwice(ts, pid) == Append(Append(ts, RestartTimer(pid)), RestartTimer(pid))

\* part_000:53-58: the timers after a close event of child pid
OnCloseTimers(ts, pid) == Append(ts, RestartTimer(pid))

\* A variant that answers /health with 200 whatever the flag is.
RequestHandlerIgnoresFlag(url, healthy) ==
    IF url = "/health" \/ url = "/"
    THEN [status |-> 200, location |-> Null,
          body |-> "{\"status\":\"ok\",\"openclaw\":\"running\",\"wsPort\":"
                     \o ToString(OPENCLAW_PORT) \o "}"]
    ELSE [status |-> 302, body |-> "",
          location |-> "http://localhost:" \o ToString(OPENCLAW_PORT) \o url]

\* A variant that redirects to the gateway's root, dropping the request path.
RequestHandlerDropsPath(url, healthy) ==
    IF url = "/health" \/ url = "/"
    THEN IF healthy
         THEN [status |-> 200, location |-> Null,
               body |-> "{\"status\":\"ok\",\"openclaw\":\"running\",\"wsPort\":"
                          \o ToString(OPENCLAW_PORT) \o "}"]
         ELSE [status |-> 503, location |-> Null,
               body |-> "{\"status\":\"starting\"}"]
    ELSE [status |-> 302, body |-> "",
          location |-> "http://localhost:" \o ToString(OPENCLAW_PORT) \o "/"]

\* part_000:67-85
RequestHandler(url, healthy) ==
    IF url = "/health" \/ url = "/"
    THEN IF healthy
         THEN [status |-> 200, location |-> Null,
               body |-> "{\"status\":\"ok\",\"openclaw\":\"running\",\"wsPort\":"
                          \o ToString(OPENCLAW_PORT) \o "}"]
         ELSE [status |-> 503, location |-> Null,
               body |-> "{\"status\":\"starting\"}"]
    ELSE [status |-> 302, body |-> "",
          location |-> "http://localhost:" \o ToString(OPENCLAW_PORT) \o url]

\* A variant that kills the child outright.
ShutdownKillsSigkill(proc) ==
    IF proc # NoProcess THEN <<[pid |-> proc, signal |-> "SIGKILL"]>> ELSE <<>>

\* part_000:88-94 and 96-102: the kills a signal handler sends
ShutdownKills(proc) ==
    IF proc # NoProcess THEN <<[pid |-> proc, signal |-> "SIGTERM"]>> ELSE <<>>

\* --------------------------------------------------------- sidecar
SidecarStart ==
    /\ pc = "init"
    /\ exitCode = <<>>
    /\ openclawHealthy = FALSE
    /\ openclawProcess = NoProcess
    /\ alive = {}
    /\ spawnLog = <<>>
    /\ timers = <<>>
    /\ serverState = "idle"
    /\ killLog = <<>>
    /\ signals = 0
    /\ lastEvent = [kind |-> "none"]

SidecarInit == env \in ProcessEnvs /\ SidecarStart

\* part_000:104-109
Main ==
    /\ pc = "init"
    /\ pc' = "running"
    /\ StartOpenClaw(timers)
    /\ serverState' = "listening"
    /\ lastEvent' = [kind |-> "main"]
    /\ UNCHANGED <<env, exitCode, openclawHealthy, killLog, signals>>
    /\ UNCHANGED desktopVars

\* part_000:41-47
StdoutData(pid, chunk) ==
    /\ pc = "running"
    /\ pid \in alive
    /\ openclawHealthy' = OnStdoutData(openclawHealthy, chunk)
    /\ lastEvent' = [kind |-> "stdout", pid |-> pid, chunk |-> chunk]
    /\ UNCHANGED <<env, pc, exitCode, openclawProcess, alive, spawnLog, timers,
                   serverState, killLog, signals>>
    /\ UNCHANGED desktopVars

\* part_000:49-51
StderrData(pid, chunk) ==
    /\ pc = "running"
    /\ pid \in alive
    /\ openclawHealthy' = OnStderrData(openclawHealthy, chunk)
    /\ lastEvent' = [kind |-> "stderr", pid |-> pid, chunk |-> chunk]
    /\ UNCHANGED <<env, pc, exitCode, openclawProcess, alive, spawnLog, timers,
                   serverState, killLog, signals>>
    /\ UNCHANGED desktopVars

\* part_000:53-58: the child has exited and its stdio has closed
Close(pid, code) ==
    /\ pc = "running"
    /\ pid \in alive
    /\ Len(spawnLog) < MaxSpawns
    /\ alive' = alive \ {pid}
    /\ openclawHealthy' = FALSE
    /\ timers' = OnCloseTimers(timers, pid)
    /\ lastEvent' = [kind |-> "close", pid |-> pid, code |-> code]
    /\ UNCHANGED <<env, pc, exitCode, openclawProcess, spawnLog, serverState,
                   killLog, signals>>
    /\ UNCHANGED desktopVars

\* part_000:61-63
StartupTimerFires(i) ==
    /\ pc = "running"
    /\ i \in 1..Len(timers)
    /\ timers[i].kind = "healthy"
    /\ timers[i].left = 0
    /\ openclawHealthy' = TRUE
    /\ timers' = RemoveAt(timers, i)
    /\ lastEvent' = [kind |-> "startupTimer", pid |-> timers[i].pid]
    /\ UNCHANGED <<env, pc, exitCode, openclawProcess, alive, spawnLog,
                   serverState, killLog, signals>>
    /\ UNCHANGED desktopVars

\* part_000:57: the restart timer calls startOpenClaw
RestartTimerFires(i) ==
    /\ pc = "running"
    /\ i \in 1..Len(timers)
    /\ timers[i].kind = "restart"
    /\ timers[i].left = 0
    /\ StartOpenClaw(RemoveAt(timers, i))
    /\ lastEvent' = [kind |-> "restartTimer", pid |-> timers[i].pid]
    /\ UNCHANGED <<env, pc, exitCode, openclawHealthy, serverState, killLog,
                   signals>>
    /\ UNCHANGED desktopVars

\* Time passes by d ms; a timer that is due fires before time passes it.
Tick(d) ==
    /\ pc = "running"
    /\ timers # <<>>
    /\ \A i \in 1..Len(timers) : timers[i].left >= d
    /\ timers' = [i \in 1..Len(timers) |->
                    [timers[i] EXCEPT !.left = timers[i].left - d]]
    /\ UNCHANGED <<env, pc, exitCode, openclawHealthy, openclawProcess, alive,
                   spawnLog, serverState, killLog, signals, lastEvent>>
    /\ UNCHANGED desktopVars

\* part_000:67-85: a request arrives (while closing: on a kept-alive connection)
Request(url) ==
    /\ pc = "running"
    /\ serverState \in {"listening", "closing"}
    /\ lastEvent' = [kind |-> "request", url |-> url, healthy |-> openclawHealthy,
                     res |-> RequestHandler(url, openclawHealthy)]
    /\ UNCHANGED <<env, pc, exitCode, openclawHealthy, openclawProcess, alive,
                   spawnLog, timers, serverState, killLog, signals>>
    /\ UNCHANGED desktopVars

\* part_000:88-94, 96-102
Signal(sig) ==
    /\ pc = "running"
    /\ signals < MaxSignals
    /\ signals' = signals + 1
    /\ killLog' = killLog \o ShutdownKills(openclawProcess)
    /\ serverState' = IF serverState = "listening" THEN "closing" ELSE serverState
    /\ lastEvent' = [kind |-> "signal", signal |-> sig]
    /\ UNCHANGED <<env, pc, exitCode, openclawHealthy, openclawProcess, alive,
                   spawnLog, timers>>
    /\ UNCHANGED desktopVars

\* part_000:93, 101: the server has closed; the callback calls process.exit(0)
ServerClosed ==
    /\ pc = "running"
    /\ serverState = "closing"
    /\ serverState' = "closed"
    /\ pc' = "exited"
    /\ exitCode' = <<0>>
    /\ lastEvent' = [kind |-> "serverClosed"]
    /\ UNCHANGED <<env, openclawHealthy, openclawProcess, alive, spawnLog,
                   timers, killLog, signals>>
    /\ UNCHANGED desktopVars

Next ==
    \/ Main
    \/ \E pid \in 1..MaxSpawns, chunk \in Chunks : StdoutData(pid, chunk)
    \/ \E pid \in 1..MaxSpawns, chunk \in Chunks : StderrData(pid, chunk)
    \/ \E pid \in 1..MaxSpawns, code \in ExitCodes : Close(pid, code)
    \/ \E i \in DOMAIN timers : StartupTimerFires(i)
    \/ \E i \in DOMAIN timers : RestartTimerFires(i)
    \/ \E d \in TickSteps : Tick(d)
    \/ \E url \in Urls : Request(url)
    \/ \E sig \in {"SIGTERM", "SIGINT"} : Signal(sig)
    \/ ServerClosed

\* --------------------------------------------------------- desktop
\* store.ts:3
Screens == {"loading", "settings", "chat"}
\* what tauri.startGateway resolves with (store.ts:5-9)
Infos == {[url |-> "ws://127.0.0.1:18789", port |-> 18789, token |-> "t0k"]}
\* what a tauri call rejects with: an Error, a string, another value
Rejections ==
    {[tag |-> "Error", message |-> "gateway failed"],
     [tag |-> "string", str |-> "keychain locked"],
     [tag |-> "number", num |-> 42]}
\* what the user types into the key field, as character sequences
KeyInputs ==
    {<<>>, <<" ", " ">>, <<" ", "s", "k", "-", "1", " ">>, <<"s", "k", "-", "2">>}

\* A variant that takes String(err) of every rejection, an Error too.
ErrorMessageString(err) ==
    IF err.tag = "Error" THEN "Error: " \o err.message
    ELSE IF err.tag = "string" THEN err.str
    ELSE ToString(err.num)

\* Settings.tsx:32, 58: err instanceof Error ? err.message : String(err)
ErrorMessage(err) ==
    IF err.tag = "Error" THEN err.message
    ELSE IF err.tag = "string" THEN err.str
    ELSE ToString(err.num)

IsSpace(c) == c \in {" ", "\t", "\n"}
RECURSIVE TrimStart(_)
TrimStart(s) ==
    IF s # <<>> /\ IsSpace(Head(s)) THEN TrimStart(Tail(s)) ELSE s
RECURSIVE TrimEnd(_)
TrimEnd(s) ==
    IF s # <<>> /\ IsSpace(s[Len(s)]) THEN TrimEnd(SubSeq(s, 1, Len(s) - 1)) ELSE s
\* String.prototype.trim
Trim(s) == TrimEnd(TrimStart(s))

\* store.ts:11-15
StatusStopped == [type |-> "stopped"]
StatusStarting == [type |-> "starting"]
StatusRunning(info) == [type |-> "running", info |-> info]
StatusError(message) == [type |-> "error", message |-> message]
\* store.ts:17-21
RuntimeChecking == [type |-> "checking"]
RuntimeDownloading(progress) == [type |-> "downloading", progress |-> progress]
RuntimeInstalled(version) == [type |-> "installed", version |-> version]

\* the values the rest of the app passes to the store's setters
GatewayStatusInputs ==
    {StatusStopped, StatusStarting, StatusError("gateway failed")}
    \cup {StatusRunning(i) : i \in Infos}
RuntimeStatusInputs ==
    {RuntimeChecking, RuntimeDownloading(0), RuntimeDownloading(50),
     RuntimeInstalled("22.12.0"), StatusError("download failed")}
ErrorInputs == {Null, "gateway failed"}

\* store.ts:38-42
InitialState ==
    [screen |-> "loading", gatewayStatus |-> StatusStopped,
     runtimeStatus |-> RuntimeChecking, apiKeyConfigured |-> FALSE,
     error |-> Null]

\* zustand's set(partial): the partial state is merged into the state
StoreSet(st, partial) == partial @@ st

\* store.ts:44
setScreen(st, screen) == StoreSet(st, [screen |-> screen])
\* A variant of setGatewayStatus that also clears the error.
setGatewayStatusClearsError(st, gatewayStatus) ==
    StoreSet(st, [gatewayStatus |-> gatewayStatus, error |-> Null])
\* store.ts:45
setGatewayStatus(st, gatewayStatus) == StoreSet(st, [gatewayStatus |-> gatewayStatus])
\* store.ts:46
setRuntimeStatus(st, runtimeStatus) == StoreSet(st, [runtimeStatus |-> runtimeStatus])
\* store.ts:47
setApiKeyConfigured(st, configured) == StoreSet(st, [apiKeyConfigured |-> configured])
\* store.ts:48
setError(st, error) == StoreSet(st, [error |-> error])

\* Settings.tsx:66
runtimeReady == store.runtimeStatus.type = "installed"
\* Settings.tsx:143
InputDisabled == saving \/ ~runtimeReady
\* Settings.tsx:150
ContinueDisabled == Trim(apiKey) = <<>> \/ saving \/ ~runtimeReady
\* Settings.tsx:103-116: the 'Try again' button is rendered
TryAgainShown ==
    /\ ~runtimeReady
    /\ store.runtimeStatus.type # "downloading"
    /\ store.runtimeStatus.type = "error"

DesktopInit ==
    /\ store = InitialState
    /\ apiKey = <<>>
    /\ saving = FALSE
    /\ savePc = "idle"
    /\ saveLog = <<>>
    /\ installPc = "idle"

\* store.ts:44-48: another part of the app calls a setter
SetScreen(screen) ==
    /\ store' = setScreen(store, screen)
    /\ UNCHANGED <<apiKey, saving, savePc, saveLog, installPc>>
    /\ UNCHANGED sidecarVars
SetGatewayStatus(status) ==
    /\ store' = setGatewayStatus(store, status)
    /\ UNCHANGED <<apiKey, saving, savePc, saveLog, installPc>>
    /\ UNCHANGED sidecarVars
SetRuntimeStatus(status) ==
    /\ store' = setRuntimeStatus(store, status)
    /\ UNCHANGED <<apiKey, saving, savePc, saveLog, installPc>>
    /\ UNCHANGED sidecarVars
SetApiKeyConfigured(configured) ==
    /\ store' = setApiKeyConfigured(store, configured)
    /\ UNCHANGED <<apiKey, saving, savePc, saveLog, installPc>>
    /\ UNCHANGED sidecarVars
SetError(error) ==
    /\ store' = setError(store, error)
    /\ UNCHANGED <<apiKey, saving, savePc, saveLog, installPc>>
    /\ UNCHANGED sidecarVars

\* Settings.tsx:137-145: the user edits the key field
TypeApiKey(value) ==
    /\ ~InputDisabled
    /\ apiKey' = value
    /\ UNCHANGED <<store, saving, savePc, saveLog, installPc>>
    /\ UNCHANGED sidecarVars

\* Settings.tsx:57-60: the catch block of handleSave
SaveCatch(st, err) ==
    setGatewayStatus(setError(st, ErrorMessage(err)), StatusError(ErrorMessage(err)))
SaveCatchLog(err) ==
    <<[call |-> "rejected", err |-> err],
      [call |-> "setError", error |-> ErrorMessage(err)],
      [call |-> "setGatewayStatus", status |-> StatusError(ErrorMessage(err))],
      [call |-> "setSaving", saving |-> FALSE]>>

\* A variant of handleSave without the check of the runtime.
HandleSaveSyncNoRuntimeCheck(st, key, sv) ==
    IF Trim(key) = <<>>
    THEN [store |-> st, saving |-> sv, calls |-> <<>>, awaits |-> "idle"]
    ELSE [store |-> setError(st, Null), saving |-> TRUE, awaits |-> "setApiKey",
          calls |-> <<[call |-> "setSaving", saving |-> TRUE],
                      [call |-> "setError", error |-> Null],
                      [call |-> "tauri.setApiKey", key |-> Trim(key)]>>]

\* Settings.tsx:37-50: handleSave up to its first await, called with the store
\* state st, the key field key and the saving flag sv: the state it leaves, the
\* calls it has made and the tauri call it awaits ("idle": it has returned)
HandleSaveSync(st, key, sv) ==
    IF Trim(key) = <<>>
    THEN [store |-> st, saving |-> sv, calls |-> <<>>, awaits |-> "idle"]
    ELSE IF st.runtimeStatus.type # "installed"
    THEN [store |-> setError(st, "Please wait for the runtime to finish installing."),
          saving |-> sv, awaits |-> "idle",
          calls |-> <<[call |-> "setError",
                       error |-> "Please wait for the runtime to finish installing."]>>]
    ELSE [store |-> setError(st, Null), saving |-> TRUE, awaits |-> "setApiKey",
          calls |-> <<[call |-> "setSaving", saving |-> TRUE],
                      [call |-> "setError", error |-> Null],
                      [call |-> "tauri.setApiKey", key |-> Trim(key)]>>]

\* Settings.tsx:37-50: handleSave is called while no call of it is in flight
HandleSave ==
    /\ savePc = "idle"
    /\ LET r == HandleSaveSync(store, apiKey, saving) IN
         /\ store' = r.store
         /\ saving' = r.saving
         /\ savePc' = r.awaits
         /\ saveLog' = IF r.calls = <<>> THEN saveLog ELSE r.calls
    /\ UNCHANGED <<apiKey, installPc>>
    /\ UNCHANGED sidecarVars

\* A variant that starts the gateway without announcing it as starting.
SetApiKeyResolvesNoStarting ==
    /\ savePc = "setApiKey"
    /\ store' = setApiKeyConfigured(store, TRUE)
    /\ savePc' = "startGateway"
    /\ saveLog' = saveLog \o
                    <<[call |-> "setApiKeyConfigured", configured |-> TRUE],
                      [call |-> "tauri.startGateway"]>>
    /\ UNCHANGED <<apiKey, saving, installPc>>
    /\ UNCHANGED sidecarVars

\* Settings.tsx:50-54: tauri.setApiKey has resolved
SetApiKeyResolves ==
    /\ savePc = "setApiKey"
    /\ store' = setGatewayStatus(setApiKeyConfigured(store, TRUE), StatusStarting)
    /\ savePc' = "startGateway"
    /\ saveLog' = saveLog \o
                    <<[call |-> "setApiKeyConfigured", configured |-> TRUE],
                      [call |-> "setGatewayStatus", status |-> StatusStarting],
                      [call |-> "tauri.startGateway"]>>
    /\ UNCHANGED <<apiKey, saving, installPc>>
    /\ UNCHANGED sidecarVars

\* Settings.tsx:54-56, 61-63: tauri.startGateway has resolved with info
StartGatewayResolves(info) ==
    /\ savePc = "startGateway"
    /\ store' = setScreen(setGatewayStatus(store, StatusRunning(info)), "chat")
    /\ saving' = FALSE
    /\ savePc' = "idle"
    /\ saveLog' = saveLog \o
                    <<[call |-> "setGatewayStatus", status |-> StatusRunning(info)],
                      [call |-> "setScreen", screen |-> "chat"],
                      [call |-> "setSaving", saving |-> FALSE]>>
    /\ UNCHANGED <<apiKey, installPc>>
    /\ UNCHANGED sidecarVars

\* A variant without the finally block: a failed call leaves saving set.
SaveRejectsKeepsSaving(err) ==
    /\ savePc \in {"setApiKey", "startGateway"}
    /\ store' = SaveCatch(store, err)
    /\ savePc' = "idle"
    /\ saveLog' = saveLog \o SubSeq(SaveCatchLog(err), 1, 3)
    /\ UNCHANGED <<apiKey, saving, installPc>>
    /\ UNCHANGED sidecarVars

\* Settings.tsx:57-63: tauri.setApiKey or tauri.startGateway has rejected
SaveRejects(err) ==
    /\ savePc \in {"setApiKey", "startGateway"}
    /\ store' = SaveCatch(store, err)
    /\ saving' = FALSE
    /\ savePc' = "idle"
    /\ saveLog' = saveLog \o SaveCatchLog(err)
    /\ UNCHANGED <<apiKey, installPc>>
    /\ UNCHANGED sidecarVars

\* Settings.tsx:28
InstallStart(st) == setRuntimeStatus(st, RuntimeDownloading(0))
\* A variant of the catch block that also reports through the error field.
InstallCatchSetsError(st, err) ==
    setError(setRuntimeStatus(st, StatusError(ErrorMessage(err))), ErrorMessage(err))
\* Settings.tsx:31-34: the catch block of handleInstallRuntime
InstallCatch(st, err) == setRuntimeStatus(st, StatusError(ErrorMessage(err)))

\* Settings.tsx:27-30: 'Try again' is clicked
HandleInstallRuntime ==
    /\ TryAgainShown
    /\ installPc = "idle"
    /\ store' = InstallStart(store)
    /\ installPc' = "installRuntime"
    /\ UNCHANGED <<apiKey, saving, savePc, saveLog>>
    /\ UNCHANGED sidecarVars

\* Settings.tsx:30: tauri.installRuntime has resolved
InstallResolves ==
    /\ installPc = "installRuntime"
    /\ installPc' = "idle"
    /\ UNCHANGED <<store, apiKey, saving, savePc, saveLog>>
    /\ UNCHANGED sidecarVars

\* Settings.tsx:31-34: tauri.installRuntime has rejected
InstallRejects(err) ==
    /\ installPc = "installRuntime"
    /\ installPc' = "idle"
    /\ store' = InstallCatch(store, err)
    /\ UNCHANGED <<apiKey, saving, savePc, saveLog>>
    /\ UNCHANGED sidecarVars

DesktopNext ==
    \/ \E screen \in Screens : SetScreen(screen)
    \/ \E status \in GatewayStatusInputs : SetGatewayStatus(status)
    \/ \E status \in RuntimeStatusInputs : SetRuntimeStatus(status)
    \/ \E configured \in BOOLEAN : SetApiKeyConfigured(configured)
    \/ \E error \in ErrorInputs : SetError(error)
    \/ \E value \in KeyInputs : TypeApiKey(value)
    \/ HandleSave
    \/ SetApiKeyResolves
    \/ \E info \in Infos : StartGatewayResolves(info)
    \/ \E err \in Rejections : SaveRejects(err)
    \/ HandleInstallRuntime
    \/ InstallResolves
    \/ \E err \in Rejections : InstallRejects(err)

Init == SidecarInit /\ DesktopInit

\* The desktop app alone: the sidecar is another program, on another machine,
\* and is left where it starts.
DesktopOnlyInit ==
    /\ env = [k \in {"PORT"} |-> "3000"]
    /\ SidecarStart
    /\ DesktopInit
DesktopSpec == DesktopOnlyInit /\ [][DesktopNext]_vars

\* The Settings screen alone: its own handlers and the runtime's status
\* reports; no other part of the app writes the store.
SettingsNext ==
    \/ \E status \in RuntimeStatusInputs : SetRuntimeStatus(status)
    \/ \E value \in KeyInputs : TypeApiKey(value)
    \/ HandleSave
    \/ SetApiKeyResolves
    \/ \E info \in Infos : StartGatewayResolves(info)
    \/ \E err \in Rejections : SaveRejects(err)
    \/ HandleInstallRuntime
    \/ InstallResolves
    \/ \E err \in Rejections : InstallRejects(err)
SettingsSpec == DesktopOnlyInit /\ [][SettingsNext]_vars

Spec == Init /\ [][Next]_vars

\* Node's event loop runs every timer that is due, and time passes.
FairSpec ==
    /\ Spec
    /\ WF_vars(\E d \in TickSteps : Tick(d))
    /\ WF_vars(\E i \in DOMAIN timers : StartupTimerFires(i))
    /\ WF_vars(\E i \in DOMAIN timers : RestartTimerFires(i))

\* ================================================== sidecar properties
\* children that have been spawned and have closed
Closed == (1..Len(spawnLog)) \ alive
RestartTimersOf(c) ==
    {i \in DOMAIN timers : timers[i].kind = "restart" /\ timers[i].pid = c}
IsRequest(url) == lastEvent.kind = "request" /\ lastEvent.url = url
OkBody == "{\"status\":\"ok\",\"openclaw\":\"running\",\"wsPort\":18789}"
StartingBody == "{\"status\":\"starting\"}"

\* C1: a /health request is answered from the health flag alone: 200 with
\* {status:'ok', openclaw:'running', wsPort:18789} when it is true, 503 with
\* {status:'starting'} when it is false, and nothing else.
C1_HealthAnswer ==
    IsRequest("/health") =>
        /\ lastEvent.healthy = openclawHealthy
        /\ lastEvent.res = IF openclawHealthy
                           THEN [status |-> 200, body |-> OkBody, location |-> Null]
                           ELSE [status |-> 503, body |-> StartingBody, location |-> Null]
C1_Witness ==
    /\ IsRequest("/health") /\ openclawHealthy /\ lastEvent.res.status = 200

\* C2 as claimed: every request whose URL is not /health is answered with a
\* 302 to http://localhost:18789 followed by the request URL.
C2_Original ==
    (lastEvent.kind = "request" /\ lastEvent.url # "/health") =>
        /\ lastEvent.res.status = 302
        /\ lastEvent.res.location = "http://localhost:18789" \o lastEvent.url
\* C2 as amended: every request whose URL is neither /health nor / is answered
\* with a 302 to http://localhost:18789 followed by the unchanged request URL,
\* whatever the health flag is; / is answered as /health is.
C2_Redirect ==
    lastEvent.kind = "request" =>
        IF lastEvent.url \in {"/health", "/"}
        THEN lastEvent.res =
                 IF openclawHealthy
                 THEN [status |-> 200, body |-> OkBody, location |-> Null]
                 ELSE [status |-> 503, body |-> StartingBody, location |-> Null]
        ELSE lastEvent.res =
                 [status |-> 302, body |-> "",
                  location |-> "http://localhost:18789" \o lastEvent.url]
C2_Witness ==
    /\ IsRequest("/health?probe=1") /\ openclawHealthy
    /\ lastEvent.res.location = "http://localhost:18789/health?probe=1"

\* C3 as claimed, in the form a finite run refutes: once the sidecar has
\* stopped, every close of a child has been followed by a new spawn.
C3_Original ==
    pc = "exited" => \A c \in Closed : c < Len(spawnLog)
\* C3 as amended: every close event arms exactly one restart timer, always with
\* the fixed delay of 5000 ms however many restarts came before; a closed child
\* is answered by exactly one pending restart timer or one spawn, never both or
\* more; and the spawn eventually follows unless the sidecar exits first.
C3_Restart ==
    /\ [][\A c \in alive : alive' = alive \ {c} =>
              timers' = Append(timers, [kind |-> "restart", left |-> 5000, pid |-> c])]_vars
    /\ [](\A c \in Closed :
              Cardinality(RestartTimersOf(c)) = (IF c < Len(spawnLog) THEN 0 ELSE 1))
    /\ [][Len(spawnLog') > Len(spawnLog) /\ pc = "running" =>
              \E i \in RestartTimersOf(Len(spawnLog)) :
                  timers[i].left = 0 /\ RestartTimersOf(Len(spawnLog))' = {}]_vars
    /\ \A c \in 1..MaxSpawns :
          (c \in Closed) ~> (c < Len(spawnLog) \/ pc = "exited")
C3_Witness ==
    /\ Len(spawnLog) = 3 /\ Closed = {1, 2} /\ pc = "running"
    /\ lastEvent.kind = "restartTimer"

\* C4: at most one gateway child is alive, and startOpenClaw has run once at
\* start-up plus at most once per close event.
C4_OneChild ==
    /\ Cardinality(alive) <= 1
    /\ pc # "init" => Len(spawnLog) <= 1 + Cardinality(Closed)
    /\ pc # "init" => Len(spawnLog) >= 1
C4_Witness ==
    /\ Len(spawnLog) >= 2 /\ alive = {Len(spawnLog)}

\* C5: a SIGTERM or SIGINT makes the sidecar send one SIGTERM to the child it
\* last spawned and close the server, and do nothing else to the child; the
\* sidecar exits only when the server has closed, with code 0; kill() is
\* called nowhere else.
C5_Shutdown ==
    /\ [][signals' # signals =>
             /\ openclawProcess = Len(spawnLog)
             /\ killLog' = Append(killLog, [pid |-> openclawProcess, signal |-> "SIGTERM"])
             /\ serverState' = "closing"
             /\ UNCHANGED <<alive, timers, openclawProcess, openclawHealthy, spawnLog, pc>>]_vars
    /\ [][killLog' # killLog => signals' = signals + 1]_vars
    /\ [](pc = "exited" <=> exitCode # <<>>)
    /\ [](pc = "exited" => exitCode = <<0>> /\ serverState = "closed" /\ signals >= 1)
    /\ [][pc' = "exited" /\ pc # "exited" => serverState = "closing"]_vars
C5_Witness ==
    /\ pc = "exited" /\ exitCode = <<0>>
    /\ killLog = <<[pid |-> 2, signal |-> "SIGTERM"]>>

\* C6: the health flag is false at process start, is false after every close
\* event, and turns true only in the handler of a stdout chunk of a live child
\* that contains 'listening' or 'started', or when the 3000 ms timer armed at
\* a spawn fires; a stderr chunk leaves it as it was.
C6_HealthFlag ==
    /\ [](pc = "init" => ~openclawHealthy)
    /\ [][alive' # alive /\ alive' \subseteq alive => ~openclawHealthy']_vars
    /\ [][~openclawHealthy /\ openclawHealthy' =>
             \/ /\ lastEvent'.kind = "stdout"
                /\ lastEvent'.pid \in alive
                /\ \/ Includes(lastEvent'.chunk, <<"l","i","s","t","e","n","i","n","g">>)
                   \/ Includes(lastEvent'.chunk, <<"s","t","a","r","t","e","d">>)
             \/ /\ lastEvent'.kind = "startupTimer"
                /\ lastEvent'.pid \in 1..Len(spawnLog)
                /\ \E i \in DOMAIN timers :
                      /\ timers[i] = [kind |-> "healthy", left |-> 0, pid |-> lastEvent'.pid]
                      /\ timers' = RemoveAt(timers, i)]_vars
    /\ [][Len(spawnLog') > Len(spawnLog) =>
             timers'[Len(timers')] =
                 [kind |-> "healthy", left |-> 3000, pid |-> Len(spawnLog')]]_vars
    /\ [][lastEvent'.kind = "stderr" => openclawHealthy' = openclawHealthy]_vars
C6_Witness ==
    /\ openclawHealthy /\ lastEvent.kind = "stdout"
    /\ Includes(lastEvent.chunk, ChStarted)
    /\ \E i \in DOMAIN timers : timers[i].kind = "healthy" /\ timers[i].pid = lastEvent.pid

\* the arguments of a spawn carry --token
HasToken(args) == \E i \in DOMAIN args : args[i] = "--token"
BaseArgs ==
    <<"openclaw", "gateway", "--port", "18789", "--bind", "lan", "--allow-unconfigured">>

\* C8 as claimed: every variable set in the sidecar's environment reaches each
\* child with the sidecar's value.
C8_Original ==
    \A i \in DOMAIN spawnLog : \A k \in DOMAIN env :
        env[k] # Undefined => spawnLog[i].env[k] = env[k]
\* C8 as amended: each spawn, the first and every restart alike, receives the
\* sidecar's environment except NODE_OPTIONS, which is always
\* '--max-old-space-size=2048'; the four provider API keys carry the sidecar's
\* own values; and the arguments end with '--token <value>' if and only if
\* OPENCLAW_GATEWAY_TOKEN is set and non-empty, <value> being its value.
C8_SpawnEnv ==
    \A i \in DOMAIN spawnLog :
        LET s == spawnLog[i]
            tok == env["OPENCLAW_GATEWAY_TOKEN"] IN
        /\ DOMAIN s.env = DOMAIN env
        /\ \A k \in DOMAIN env \ {"NODE_OPTIONS"} : s.env[k] = env[k]
        /\ s.env["NODE_OPTIONS"] = "--max-old-space-size=2048"
        /\ \A k \in ApiKeyNames : s.env[k] = env[k]
        /\ HasToken(s.args) <=> (tok # Undefined /\ tok # "")
        /\ s.args = IF tok # Undefined /\ tok # ""
                    THEN BaseArgs \o <<"--token", tok>> ELSE BaseArgs
C8_Witness ==
    /\ Len(spawnLog) >= 2 /\ env["OPENCLAW_GATEWAY_TOKEN"] = "s3cret"
    /\ spawnLog[2].args = BaseArgs \o <<"--token", "s3cret">>
    /\ spawnLog[2].env["ANTHROPIC_API_KEY"] = "sk-ant"

\* C10: whenever the health flag is true, a gateway child is alive.
C10_HealthyImpliesAlive ==
    openclawHealthy => alive # {}

\* C11: once the sidecar has received SIGTERM or SIGINT, startOpenClaw does not
\* run again: no step taken after the signal spawns a gateway child.
C11_NoSpawnAfterSignal ==
    [][signals >= 1 => Len(spawnLog') = Len(spawnLog)]_vars

\* ================================================== desktop properties
\* the message each rejection is to be shown as
ShownAs(err) ==
    IF err = [tag |-> "Error", message |-> "gateway failed"] THEN "gateway failed"
    ELSE IF err = [tag |-> "string", str |-> "keychain locked"] THEN "keychain locked"
    ELSE "42"
Calls(log, name) == {i \in DOMAIN log : log[i].call = name}

\* C7: when tauri.setApiKey or tauri.startGateway rejects, the step that
\* handles the rejection sets gatewayStatus to {type:'error', message} and the
\* store's error to the same message, which is the Error's message or the
\* string form of the rejected value; it leaves the screen as it is, and the
\* failed call of handleSave has never set the screen.
C7_SaveFailure ==
    [][(savePc # "idle" /\ savePc' = "idle" /\ Calls(saveLog', "rejected") # {}) =>
          \E i \in Calls(saveLog', "rejected") :
              /\ store'.gatewayStatus =
                     [type |-> "error", message |-> ShownAs(saveLog'[i].err)]
              /\ store'.error = ShownAs(saveLog'[i].err)
              /\ store'.screen = store.screen
              /\ Calls(saveLog', "setScreen") = {}
              /\ saving' = FALSE]_vars
C7_Witness ==
    /\ savePc = "idle"
    /\ Calls(saveLog, "tauri.startGateway") # {}
    /\ \E i \in Calls(saveLog, "rejected") : saveLog[i].err.tag = "Error"
    /\ store.error = "gateway failed"
    /\ store.gatewayStatus = [type |-> "error", message |-> "gateway failed"]
    /\ store.screen = "settings"

StoreFields == {"screen", "gatewayStatus", "runtimeStatus", "apiKeyConfigured", "error"}
AllMessages ==
    {"gateway failed", "keychain locked", "42", "download failed",
     "Please wait for the runtime to finish installing."}
GatewayVariant(g) ==
    \/ g = [type |-> "stopped"]
    \/ g = [type |-> "starting"]
    \/ DOMAIN g = {"type", "info"} /\ g.type = "running" /\ g.info \in Infos
    \/ DOMAIN g = {"type", "message"} /\ g.type = "error" /\ g.message \in AllMessages
RuntimeVariant(r) ==
    \/ r = [type |-> "checking"]
    \/ DOMAIN r = {"type", "progress"} /\ r.type = "downloading" /\ r.progress \in 0..100
    \/ DOMAIN r = {"type", "version"} /\ r.type = "installed" /\ r.version = "22.12.0"
    \/ DOMAIN r = {"type", "message"} /\ r.type = "error" /\ r.message \in AllMessages
\* st is new with field f set to v and every other field as in old
OnlyField(new, old, f, v) ==
    /\ DOMAIN new = StoreFields
    /\ new[f] = v
    /\ \A g \in StoreFields \ {f} : new[g] = old[g]

\* C9: the store starts as {loading, stopped, checking, false, null}; in every
\* reachable state gatewayStatus and runtimeStatus are each exactly one of
\* their four variants; and each setter, applied to any reachable state,
\* replaces its own field and leaves the other four as they were.
C9_Store ==
    /\ store = [screen |-> "loading", gatewayStatus |-> [type |-> "stopped"],
                runtimeStatus |-> [type |-> "checking"],
                apiKeyConfigured |-> FALSE, error |-> "<null>"]
    /\ [](/\ DOMAIN store = StoreFields
          /\ store.screen \in Screens
          /\ GatewayVariant(store.gatewayStatus)
          /\ RuntimeVariant(store.runtimeStatus)
          /\ store.apiKeyConfigured \in BOOLEAN
          /\ store.error \in AllMessages \cup {"<null>"})
    /\ [](/\ \A v \in Screens :
                OnlyField(setScreen(store, v), store, "screen", v)
          /\ \A v \in GatewayStatusInputs :
                OnlyField(setGatewayStatus(store, v), store, "gatewayStatus", v)
          /\ \A v \in RuntimeStatusInputs :
                OnlyField(setRuntimeStatus(store, v), store, "runtimeStatus", v)
          /\ \A v \in BOOLEAN :
                OnlyField(setApiKeyConfigured(store, v), store, "apiKeyConfigured", v)
          /\ \A v \in ErrorInputs :
                OnlyField(setError(store, v), store, "error", v))
C9_Witness ==
    /\ store.gatewayStatus = [type |-> "error", message |-> "42"]
    /\ store.runtimeStatus = [type |-> "downloading", progress |-> 0]
    /\ store.screen = "chat"
    /\ store.apiKeyConfigured
    /\ store.error = "42"

\* the key is empty or whitespace only
Blank(key) == \A i \in DOMAIN key : key[i] \in {" ", "\t", "\n"}
\* k is key without the whitespace at its two ends
IsTrimOf(k, key) ==
    /\ k # <<>> /\ ~Blank(<<k[1]>>) /\ ~Blank(<<k[Len(k)]>>)
    /\ \E a \in DOMAIN key :
          /\ SubSeq(key, a, a + Len(k) - 1) = k
          /\ Blank(SubSeq(key, 1, a - 1))
          /\ Blank(SubSeq(key, a + Len(k), Len(key)))
PleaseWait == "Please wait for the runtime to finish installing."

\* C12: handleSave calls tauri.setApiKey, with the trimmed key, exactly when the
\* key is not blank and runtimeStatus is 'installed', and the gateway is started
\* only in such a call; with a blank key it changes nothing and calls nothing;
\* with a key and a runtime that is not installed it sets error to 'Please wait
\* for the runtime to finish installing.' and nothing else, and calls neither
\* tauri.setApiKey nor tauri.startGateway.
C12_SaveGuards ==
    /\ [](LET r == HandleSaveSync(store, apiKey, saving)
              installed == store.runtimeStatus.type = "installed" IN
          /\ Blank(apiKey) =>
                r = [store |-> store, saving |-> saving, calls |-> <<>>, awaits |-> "idle"]
          /\ (~Blank(apiKey) /\ ~installed) =>
                /\ r.store.error = PleaseWait
                /\ \A f \in StoreFields \ {"error"} : r.store[f] = store[f]
                /\ DOMAIN r.store = StoreFields
                /\ r.saving = saving
                /\ r.awaits = "idle"
                /\ r.calls = <<[call |-> "setError", error |-> PleaseWait]>>
          /\ (r.awaits = "setApiKey") <=> (~Blank(apiKey) /\ installed)
          /\ (Calls(r.calls, "tauri.setApiKey") # {}) <=> (~Blank(apiKey) /\ installed)
          /\ \A i \in Calls(r.calls, "tauri.setApiKey") : IsTrimOf(r.calls[i].key, apiKey)
          /\ Calls(r.calls, "tauri.startGateway") = {})
    /\ [][savePc = "idle" /\ savePc' # "idle" =>
             /\ ~Blank(apiKey) /\ store.runtimeStatus.type = "installed"
             /\ savePc' = "setApiKey"
             /\ \E i \in Calls(saveLog', "tauri.setApiKey") : IsTrimOf(saveLog'[i].key, apiKey)]_vars
    /\ [][savePc' = "startGateway" /\ savePc # "startGateway" => savePc = "setApiKey"]_vars
    /\ [][(savePc = "idle" /\ savePc' = "idle" /\ saveLog' # saveLog) =>
             /\ ~Blank(apiKey) /\ store.runtimeStatus.type # "installed"
             /\ store' = [store EXCEPT !.error = PleaseWait]
             /\ saving' = saving]_vars
C12_Witness ==
    /\ saveLog = <<[call |-> "setError", error |-> PleaseWait]>>
    /\ store.error = PleaseWait
    /\ ~Blank(apiKey) /\ store.runtimeStatus.type = "downloading"
    /\ savePc = "idle" /\ ~saving

ChatReady ==
    /\ store.screen = "chat"
    /\ store.gatewayStatus.type = "running"
    /\ store.apiKeyConfigured

\* C13 as claimed (its conclusion): after any sequence of handleSave runs,
\* screen = 'chat' implies gatewayStatus.type = 'running' and apiKeyConfigured.
C13_Original ==
    store.screen = "chat" => (store.gatewayStatus.type = "running" /\ store.apiKeyConfigured)
\* C13 as amended: apiKeyConfigured becomes true, and tauri.startGateway is
\* invoked, only in the step in which the awaited tauri.setApiKey has resolved;
\* gatewayStatus becomes 'running' only from 'starting', in the step in which
\* the awaited tauri.startGateway has resolved, with the info it returned;
\* screen becomes 'chat' only in that same step, after gatewayStatus was set;
\* and screen = 'chat' with gatewayStatus 'running' and apiKeyConfigured true
\* then lasts until a further run of handleSave passes its guards.
C13_SaveOrder ==
    /\ [][(store'.apiKeyConfigured /\ ~store.apiKeyConfigured) =>
             (savePc = "setApiKey" /\ savePc' = "startGateway")]_vars
    /\ [][(savePc' = "startGateway" /\ savePc # "startGateway") =>
             /\ savePc = "setApiKey"
             /\ store'.apiKeyConfigured
             /\ store'.gatewayStatus = [type |-> "starting"]
             /\ saveLog'[Len(saveLog')] = [call |-> "tauri.startGateway"]
             /\ \A i \in Calls(saveLog', "tauri.setApiKey") :
                    \A j \in Calls(saveLog', "setApiKeyConfigured")
                              \cup Calls(saveLog', "tauri.startGateway") : i < j]_vars
    /\ [][(store'.gatewayStatus.type = "running" /\ store'.gatewayStatus # store.gatewayStatus) =>
             /\ store.gatewayStatus = [type |-> "starting"]
             /\ savePc = "startGateway" /\ savePc' = "idle"
             /\ store'.gatewayStatus.info \in Infos
             /\ \E i \in Calls(saveLog', "setGatewayStatus") :
                    /\ saveLog'[i].status = store'.gatewayStatus
                    /\ \A j \in Calls(saveLog', "setScreen") : i < j]_vars
    /\ [][(store'.screen = "chat" /\ store.screen # "chat") =>
             (savePc = "startGateway" /\ ChatReady')]_vars
    /\ [][(ChatReady /\ savePc = "idle" /\ savePc' = "idle") => ChatReady']_vars
C13_Witness ==
    /\ ChatReady /\ savePc = "idle" /\ ~saving
    /\ Calls(saveLog, "setScreen") # {}

\* C14: saving is true exactly while a handleSave call that passed its guards
\* awaits a tauri call; it is set before tauri.setApiKey is called and cleared
\* in the step that ends the call, on success and on either rejection; while
\* a call is in flight the key field and the Continue button are disabled, so
\* the button is enabled only when no call is in flight.
C14_Saving ==
    /\ [](saving <=> savePc # "idle")
    /\ [](savePc # "idle" =>
            /\ saving \/ store.runtimeStatus.type # "installed"
            /\ Blank(apiKey) \/ saving \/ store.runtimeStatus.type # "installed"
            /\ InputDisabled /\ ContinueDisabled)
    /\ [](~ContinueDisabled => savePc = "idle")
    /\ [][(savePc = "idle" /\ savePc' # "idle") =>
             /\ ~saving /\ saving'
             /\ \A i \in Calls(saveLog', "tauri.setApiKey") :
                    \E j \in Calls(saveLog', "setSaving") :
                        j < i /\ saveLog'[j].saving = TRUE]_vars
    /\ [][(savePc # "idle" /\ savePc' = "idle") =>
             /\ saving /\ ~saving'
             /\ saveLog'[Len(saveLog')] = [call |-> "setSaving", saving |-> FALSE]]_vars
    /\ [][saving' # saving => (savePc = "idle") # (savePc' = "idle")]_vars
C14_Witness ==
    /\ saving /\ savePc = "startGateway"
    /\ ~Blank(apiKey) /\ store.runtimeStatus.type = "installed"
    /\ ContinueDisabled /\ InputDisabled

\* C15: handleInstallRuntime starts only from a store whose runtimeStatus is
\* 'error' (where the 'Try again' button is rendered); its first step writes
\* runtimeStatus = downloading with progress 0; when tauri.installRuntime
\* rejects it writes runtimeStatus = error with the rejection's message; no
\* step of it changes gatewayStatus, screen, apiKeyConfigured or error, and
\* the progress it writes lies in 0..100.
C15_InstallRetry ==
    /\ [](TryAgainShown <=> store.runtimeStatus.type = "error")
    /\ [](InstallStart(store) =
            [store EXCEPT !.runtimeStatus = [type |-> "downloading", progress |-> 0]])
    /\ [](\A err \in Rejections :
            InstallCatch(store, err) =
              [store EXCEPT !.runtimeStatus = [type |-> "error", message |-> ShownAs(err)]])
    /\ [][(installPc = "idle" /\ installPc' # "idle") =>
             /\ store.runtimeStatus.type = "error"
             /\ store'.runtimeStatus = [type |-> "downloading", progress |-> 0]]_vars
    /\ [][(installPc # "idle" /\ installPc' = "idle") =>
             \/ store' = store
             \/ \E err \in Rejections :
                   store'.runtimeStatus = [type |-> "error", message |-> ShownAs(err)]]_vars
    /\ [][installPc' # installPc =>
             /\ store'.gatewayStatus = store.gatewayStatus
             /\ store'.screen = store.screen
             /\ store'.apiKeyConfigured = store.apiKeyConfigured
             /\ store'.error = store.error
             /\ (store'.runtimeStatus.type = "downloading" =>
                   store'.runtimeStatus.progress \in 0..100)]_vars
C15_Witness ==
    /\ installPc = "idle"
    /\ store.runtimeStatus = [type |-> "error", message |-> "42"]
    /\ TryAgainShown

====
